---- MODULE Spec2Model ----
(***************************************************************************)
(* Model of the cache engine of atp_emby_smart_cache.py: CacheManager      *)
(* (copy_file, _worker, force_cleanup, schedule_cleanup, process_queue,    *)
(* _cleanup_partials, _recover_state), the Database tables it uses, the    *)
(* MoverIgnore registry and PathTools.                                     *)
(*                                                                         *)
(* The array tier and the cache tier are modelled as one directory each.   *)
(* A file is NoFile (absent) or its size in bytes.  arr[n] is the file     *)
(* named n in the array directory, hid[n] the file named n+HIDDEN_SUFFIX   *)
(* there, cache[n] the file named n in the cache directory and part[n]     *)
(* the file named n+PARTIAL_SUFFIX there.  A subtitle file is a name with  *)
(* a suffix of ALLOWED_SUB_EXTS.                                           *)
(***************************************************************************)
EXTENDS Integers, Sequences, FiniteSets, TLC

\* ------------------------------------------------------------- bounds
MaxSize == 1        \* file sizes are 0..MaxSize bytes
MaxWorkers == 2     \* worker threads that can be alive at once
MaxRetries == 2     \* the configured RSYNC_RETRIES
MaxPos == 2         \* playback positions are 0..MaxPos, in units of 30 s
MaxPrecache == 2    \* the configured PRECACHE_EPISODES is 0..MaxPrecache

\* ---------------------------------------------------------- constants
NoFile == 0 - 1
NoRow == 0 - 1
Junk == 0 - 2      \* an incomplete *.partial left by an interrupted rsync
\* Python's None, as a path and as an item id
None == [root |-> "none", name |-> <<>>]
NoItem == ""
NoAction == ""     \* log_action=None

HIDDEN_SUFFIX == ".moved_to_cache"
PARTIAL_SUFFIX == ".partial"
ALLOWED_SUB_EXTS == {".srt", ".sub", ".idx", ".vtt", ".ass", ".smi"}

FileSizes == 0..MaxSize

\* File names are sequences of tokens, the last one the extension.
N1 == <<"S", "1", ".mkv">>
N2 == <<"S", "1", "0", ".mkv">>
N3 == <<"S", "1", ".srt">>          \* a subtitle file of N1
MediaNames == {N1, N2}
Names == MediaNames \cup {N3}

\* A path is a tier root and a file name.
UserPath(n) == [root |-> "user", name |-> n]
P1 == UserPath(N1)
P2 == UserPath(N2)
P3 == UserPath(N3)
PX == [root |-> "other", name |-> N1]    \* a path outside the user-view root
UserPaths == {P1, P2, P3}
\* The paths of media items, which the callers pass.
Paths == {P1, P2, PX}
\* The keys of the tables and of the registry.
Keys == UserPaths \cup {PX}
ItemIds == {"i1"}

\* ---------------------------------------------------------- PathTools
\* An array path computed for every path, the ones outside the user-view root
\* included.
get_array_any(p) == [root |-> "array", name |-> p.name]

get_array(p) == IF p.root = "user" THEN [root |-> "array", name |-> p.name] ELSE None

get_cache(p) == IF p.root = "user" THEN [root |-> "cache", name |-> p.name] ELSE None

get_user(p) ==
    IF p.root = "cache" THEN [root |-> "user", name |-> p.name]
    ELSE IF p.root = "array" THEN [root |-> "user", name |-> p.name]
    ELSE p

\* pathlib: Path.stem, Path.suffix, str.startswith, str.endswith
stem(n) == SubSeq(n, 1, Len(n) - 1)
suffix(n) == n[Len(n)]
startswith(s, t) == Len(t) <= Len(s) /\ SubSeq(s, 1, Len(t)) = t
endswith(s, t) == Len(t) <= Len(s) /\ SubSeq(s, Len(s) - Len(t) + 1, Len(s)) = t
hidden_name(n) == n \o <<HIDDEN_SUFFIX>>

VARIABLES
    arr,        \* array directory: original names
    hid,        \* array directory: marker names (name + HIDDEN_SUFFIX)
    part,       \* cache directory: partial names (name + PARTIAL_SUFFIX)
    cache,      \* cache directory: final names
    rows,       \* managed_files: user path -> size_bytes, or NoRow
    queue,      \* cleanup_queue: user path -> "none" | "pending" | "due"
    ignore,     \* mover-ignore file: number of lines holding the user path
    active,     \* CacheManager.active
    processed,  \* CacheManager.processed
    workers,    \* the _worker threads
    dem,        \* the threads running force_cleanup: the API and the sweep
    resumed,    \* history: the paths whose queue entry a replay removed last
    mon,        \* the Monitor._run thread
    mactive,    \* Monitor.active
    carried,    \* history: the item ids the monitor has passed to copy_file
    boot,       \* the phase of the process: "down", "imported", "running", "exited"
    cfg,        \* what the configured tier roots are
    wrote,      \* what the step wrote to activity_log and to stats
    reb,        \* the thread handling /api/rebuild
    last        \* the call or thread exit that produced this state

vars == <<arr, hid, part, cache, rows, queue, ignore, active, processed,
          workers, dem, resumed, mon, mactive, carried, boot, cfg, wrote, reb, last>>

fsvars == <<arr, hid, part, cache>>
dbvars == <<rows, queue, ignore, resumed>>
monvars == <<mon, mactive, carried>>
bootvars == <<boot, cfg, reb>>

WorkerIds == 1..MaxWorkers
Demoters == {"api", "sweep"}

IdleWorker == [pc |-> "idle", path |-> None, size_bytes |-> 0, attempt |-> 0]
IdleDem == [pc |-> "idle", path |-> None, todo |-> {}]
\* No rebuild runs. was holds, while one runs, the paths that were queued for
\* cleanup when it started (history).
IdleReb == [pc |-> "idle", was |-> {}]

\* The configured roots, each a real mount ("mount"), a path that starts
\* like one and is none ("prefix_only", e.g. /mnt/cache with the pool not
\* mounted) or a path elsewhere ("ram", e.g. /tmp/cache): all three mounted.
MountedRoots == [CACHE_PATH |-> "mount", ARRAY_ONLY_PATH |-> "mount",
                 UNRAID_USER_PATH |-> "mount"]

\* No session seen.
NoSession == [kind |-> "none", paused |-> FALSE, pos |-> 0]

\* The monitor thread at rest. calls and pre count the copy_file calls of the
\* run with and without item id; seen is the session the last call followed.
IdleMon ==
    [pc |-> "idle", item |-> NoItem, type |-> "", path |-> None, tries |-> 0,
     count |-> 0, items |-> <<>>, calls |-> 0, pre |-> 0, seen |-> NoSession]

\* A step that writes no activity_log record and leaves the stats as they
\* are. log is the set of records appended, moves and bytes are what is
\* added to total_moves and to total_gb_moved, dated tells whether
\* last_move_date is set.
NoWrite == [log |-> {}, moves |-> 0, bytes |-> 0, dated |-> FALSE]

Step(op, p, res) == [op |-> op, path |-> p, res |-> res]

exists(f) == f # NoFile

\* os.rename(arr, hidden), lines 1047: the two listings after the rename.
rename_to_marker(a, h, n) ==
    [arr |-> [a EXCEPT ![n] = NoFile], hid |-> [h EXCEPT ![n] = a[n]]]

\* A rename back that loses the file: the marker goes, the original does not
\* come back.
rename_back_lost(a, h, n) ==
    [arr |-> a, hid |-> [h EXCEPT ![n] = NoFile]]

\* os.rename(hidden, arr), lines 775, 791 and 1057
rename_back(a, h, n) ==
    [arr |-> [a EXCEPT ![n] = h[n]], hid |-> [h EXCEPT ![n] = NoFile]]

\* ------------------------------------------------------------ Database
\* Database.add_managed_file: INSERT OR REPLACE of the row keyed by user_path.
add_managed_file(r, user_path, size_bytes) == [r EXCEPT ![user_path] = size_bytes]

\* Lines 267-268: the activity_log record add_managed_file appends after
\* the row is written, none if log_action is None.
add_managed_file_log(user_path, log_action) ==
    IF log_action # NoAction THEN {[action |-> log_action, path |-> user_path]} ELSE {}

\* Lines 278-279: remove_managed_file appends a record if there was a row.
remove_managed_file_log(r, user_path) ==
    IF r[user_path] # NoRow THEN {[action |-> "cleanup", path |-> user_path]} ELSE {}

\* Database.update_stats
update_stats(size) == [log |-> {}, moves |-> 1, bytes |-> size, dated |-> TRUE]

\* Database.remove_managed_file
remove_managed_file(r, user_path) == [r EXCEPT ![user_path] = NoRow]

\* A lookup that finds a row for every path.
is_managed_always(r, user_path) == TRUE

\* Database.is_managed
is_managed(r, user_path) == r[user_path] # NoRow

\* A removal that leaves the entry in the queue.
remove_from_queue_kept(q, user_path) == q

\* Database.remove_from_queue: the new table; the caller reads rowcount > 0
\* from the old one.
remove_from_queue(q, user_path) == [q EXCEPT ![user_path] = "none"]

\* Database.schedule_cleanup: INSERT OR REPLACE with cleanup_time = now + delay;
\* with a delay of 0 hours the entry is due at once.
db_schedule_cleanup(q, user_path, delay_hours) ==
    [q EXCEPT ![user_path] = IF delay_hours = 0 THEN "due" ELSE "pending"]

\* A selection that finds no entry.
get_pending_cleanups_none(q) == {}

\* A selection of every entry of the queue, whatever its time.
get_pending_cleanups_all(q) == {p \in Keys : q[p] # "none"}

\* Database.get_pending_cleanups: the entries with cleanup_time <= now.
get_pending_cleanups(q) == {p \in Keys : q[p] = "due"}

\* Database.clear_all
clear_all_rows == [p \in Keys |-> NoRow]

\* A clear_all that leaves the cleanup queue as it is.
clear_all_queue_kept == queue

clear_all_queue == [p \in Keys |-> "none"]

\* ---------------------------------------------------------- MoverIgnore
\* An add that appends the line without looking for it in the file.
MoverIgnore_add_again(ig, path) == [ig EXCEPT ![get_user(path)] = @ + 1]

\* MoverIgnore.add: appends the user path unless a line already holds it.
MoverIgnore_add(ig, path) ==
    LET user_path == get_user(path)
    IN  IF ig[user_path] = 0 THEN [ig EXCEPT ![user_path] = 1] ELSE ig

\* MoverIgnore.remove: rewrites the file without the lines holding the path.
MoverIgnore_remove(ig, path) == [ig EXCEPT ![get_user(path)] = 0]

\* ------------------------------------------------------------------ Init
Init ==
    /\ \E s \in FileSizes, native \in BOOLEAN :
        /\ arr = [n \in Names |-> IF n = N1 /\ ~native THEN s ELSE NoFile]
        /\ cache = [n \in Names |-> IF n = N1 /\ native THEN s ELSE NoFile]
    /\ hid = [n \in Names |-> NoFile]
    /\ part = [n \in Names |-> NoFile]
    /\ rows = [p \in Keys |-> NoRow]
    /\ queue = [p \in Keys |-> "none"]
    /\ ignore = [p \in Keys |-> 0]
    /\ active = {}
    /\ processed = {}
    /\ workers = [w \in WorkerIds |-> IdleWorker]
    /\ dem = [d \in Demoters |-> IdleDem]
    /\ resumed = {}
    /\ mon = IdleMon
    /\ mactive = {}
    /\ carried = {}
    /\ boot = "running"
    /\ cfg = MountedRoots
    /\ wrote = NoWrite
    /\ reb = IdleReb
    /\ last = Step("start", None, "")

Quiet == Step("step", None, "")

\* ------------------------------------------------------------ copy_file
\* What a call of copy_file finds in the settings and in the system.
BaseEnv ==
    [ENABLED |-> TRUE, excluded |-> FALSE, ALLOWED_EXTS |-> {".mkv"},
     resync |-> FALSE, valid_cache |-> TRUE, SKIP_HARDLINKS |-> TRUE, nlink |-> 1,
     MAX_FILE_SIZE_GB |-> 0, MIN_FREE_SPACE_GB |-> 0, free |-> MaxSize + 1,
     usage_ok |-> TRUE]

EnvCases ==
    {BaseEnv,
     [BaseEnv EXCEPT !.ENABLED = FALSE],
     [BaseEnv EXCEPT !.excluded = TRUE],
     [BaseEnv EXCEPT !.ALLOWED_EXTS = {".mp4"}],
     [BaseEnv EXCEPT !.resync = TRUE],
     [BaseEnv EXCEPT !.valid_cache = FALSE],
     [BaseEnv EXCEPT !.nlink = 2],
     [BaseEnv EXCEPT !.nlink = 2, !.SKIP_HARDLINKS = FALSE],
     [BaseEnv EXCEPT !.usage_ok = FALSE, !.free = 0]}
    \cup {[BaseEnv EXCEPT !.MAX_FILE_SIZE_GB = m] : m \in 1..MaxSize}
    \cup {[BaseEnv EXCEPT !.MIN_FREE_SPACE_GB = r, !.free = f] :
            r \in 0..1, f \in 0..(MaxSize + 1)}

\* The lowest idle worker slot.
FreeWorker == CHOOSE w \in WorkerIds :
    /\ workers[w].pc = "idle"
    /\ \A v \in WorkerIds : workers[v].pc = "idle" => w <= v

\* Lines 845-894: the rejections that come before the queue is touched.
EarlyReject(path, e) ==
    IF ~e.ENABLED THEN "disabled"
    ELSE IF e.excluded THEN "excluded"
    ELSE IF suffix(path.name) \notin e.ALLOWED_EXTS THEN "extension"
    ELSE IF e.resync THEN "parity"
    ELSE IF get_array(path) = None \/ get_cache(path) = None THEN "no_path"
    ELSE IF ~e.valid_cache THEN "invalid_path"
    ELSE IF e.SKIP_HARDLINKS /\ exists(arr[path.name]) /\ e.nlink > 1 THEN "hardlink"
    ELSE "ok"

\* Lines 938-945: shutil.disk_usage has answered and the free space is below
\* the reserve plus the size of the file (all in the same unit); when
\* disk_usage raises, the exception is swallowed and the test is skipped.
NoSpace(e, size_bytes) ==
    e.usage_ok /\ e.free < e.MIN_FREE_SPACE_GB + size_bytes

\* The return of a copy_file call, with the free space and the reserve the
\* call found.
CopyStep(path, res, e) ==
    [op |-> "copy_file", path |-> path, res |-> res,
     free |-> e.free, reserve |-> e.MIN_FREE_SPACE_GB]

\* A guard that never finds the path in flight.
InFlight_never(path) == FALSE

\* Lines 948-950: the in-flight guard.
InFlight(path) == path \in active

\* A dedup test that never finds the item id.
Seen_never(item_id) == FALSE

\* Lines 902-903: the item id was recorded by an earlier call of the session.
Seen(item_id) == item_id # NoItem /\ item_id \in processed

\* Lines 900-951: what the call does once the queue entry is removed.
LateResult(path, item_id, e) ==
    LET n == path.name
        size_bytes == IF exists(arr[n]) THEN arr[n] ELSE 0
    IN  IF Seen(item_id) THEN "duplicate"
        ELSE IF e.MAX_FILE_SIZE_GB > 0 /\ size_bytes > e.MAX_FILE_SIZE_GB THEN "too_large"
        ELSE IF exists(cache[n]) THEN (IF exists(hid[n]) THEN "cached" ELSE "native")
        ELSE IF ~exists(arr[n]) THEN "no_source"
        ELSE IF NoSpace(e, size_bytes) THEN "no_space"
        ELSE IF InFlight(path) THEN "in_flight"
        ELSE "started"

copy_file(path, item_id, e) ==
    LET n == path.name
        early == EarlyReject(path, e)
        late == LateResult(path, item_id, e)
        size_bytes == IF exists(arr[n]) THEN arr[n] ELSE 0
    IN  IF early # "ok"
        THEN /\ last' = CopyStep(path, early, e)
             /\ UNCHANGED <<fsvars, dbvars, active, processed, workers, dem>>
        ELSE /\ queue' = remove_from_queue(queue, path)
             /\ resumed' = IF queue[path] # "none" THEN resumed \cup {path} ELSE resumed
             /\ processed' = IF item_id # NoItem /\ late # "duplicate"
                             THEN processed \cup {item_id} ELSE processed
             /\ IF late = "cached"
                THEN /\ ignore' = MoverIgnore_add(ignore, path)
                     /\ rows' = IF ~is_managed(rows, path)
                                THEN add_managed_file(rows, path, size_bytes)
                                ELSE rows
                ELSE UNCHANGED <<ignore, rows>>
             /\ IF late = "started"
                THEN /\ \E w \in WorkerIds : workers[w].pc = "idle"
                     /\ active' = active \cup {path}
                     /\ workers' = [workers EXCEPT ![FreeWorker] =
                            [pc |-> "begin", path |-> path, size_bytes |-> size_bytes,
                             attempt |-> 0]]
                ELSE UNCHANGED <<active, workers>>
             /\ last' = CopyStep(path, late, e)
             /\ UNCHANGED <<fsvars, dem>>

CopyFileOn(S) ==
    /\ last = Quiet
    /\ \E path \in S, item_id \in ItemIds \cup {NoItem}, e \in EnvCases :
        copy_file(path, item_id, e)
    /\ wrote' = NoWrite
    /\ UNCHANGED <<monvars, bootvars>>

\* -------------------------------------------------------------- _worker
\* An exit that leaves the path in the in-flight set.
WorkerExit_keeps(w, outcome) ==
    /\ workers' = [workers EXCEPT ![w] = IdleWorker]
    /\ active' = active
    /\ last' = Step("worker", workers[w].path, outcome)

\* The exit of a worker thread: the finally clause releases the path.
WorkerExit(w, outcome) ==
    /\ workers' = [workers EXCEPT ![w] = IdleWorker]
    /\ active' = active \ {workers[w].path}
    /\ last' = Step("worker", workers[w].path, outcome)

\* Line 968: max_retries = Config.C.get("RSYNC_RETRIES", 3)
max_retries == MaxRetries

\* A retry loop that runs one attempt more than configured.
MoreAttempts_one_more(attempt) == attempt <= max_retries

\* Lines 989 and 1023: whether another attempt follows the failed one.
MoreAttempts(attempt) == attempt < max_retries

\* Lines 976 and 1068: the subtitle files of the array directory whose name
\* starts with the stem.
ArraySubtitles(a, n) ==
    {m \in Names : /\ exists(a[m])
                   /\ startswith(m, stem(n))
                   /\ suffix(m) \in ALLOWED_SUB_EXTS}

\* Lines 970-983: the cache directory is created and the subtitle files that
\* have no copy in the cache are copied there (a copy that fails is
\* skipped); an exception of mkdir is caught at line 1088.
WorkerBegin(w) ==
    /\ last = Quiet
    /\ workers[w].pc = "begin"
    /\ \E mkdir_ok \in BOOLEAN :
        IF mkdir_ok
        THEN /\ \E copied \in SUBSET {m \in ArraySubtitles(arr, workers[w].path.name) :
                                        ~exists(cache[m])} :
                    cache' = [m \in Names |-> IF m \in copied THEN arr[m] ELSE cache[m]]
             /\ workers' = [workers EXCEPT ![w].pc = "rsync", ![w].attempt = 1]
             /\ last' = Quiet
             /\ UNCHANGED <<arr, hid, part, active>>
        ELSE /\ part' = [part EXCEPT ![workers[w].path.name] = NoFile]
             /\ WorkerExit(w, "error")
             /\ UNCHANGED <<arr, hid, cache>>
    /\ wrote' = NoWrite
    /\ UNCHANGED <<dbvars, processed, monvars, bootvars, dem>>

\* Lines 989-1031: one rsync attempt.  rsync succeeds only if the source
\* exists; a failed attempt deletes the partial file; the last failed attempt
\* ends the worker.
WorkerRsync(w) ==
    LET n == workers[w].path.name
        attempt == workers[w].attempt
    IN  /\ last = Quiet
        /\ workers[w].pc = "rsync"
        /\ \E returncode \in {0, 1} :
            IF returncode = 0
            THEN /\ exists(arr[n])
                 /\ part' = [part EXCEPT ![n] = arr[n]]
                 /\ workers' = [workers EXCEPT ![w].pc = "hide"]
                 /\ last' = Quiet
                 /\ UNCHANGED active
            ELSE /\ part' = [part EXCEPT ![n] = NoFile]
                 /\ IF MoreAttempts(attempt)
                    THEN /\ workers' = [workers EXCEPT ![w].attempt = attempt + 1]
                         /\ last' = Quiet
                         /\ UNCHANGED active
                    ELSE WorkerExit(w, "copy_failed")
        /\ wrote' = NoWrite
        /\ UNCHANGED <<arr, hid, cache, dbvars, processed, monvars, bootvars, dem>>

\* Line 1047: os.rename(arr, hidden).  A failure is caught at line 1062 and
\* the worker returns.
WorkerHide(w) ==
    LET n == workers[w].path.name
    IN  /\ last = Quiet
        /\ workers[w].pc = "hide"
        /\ \E rename_ok \in BOOLEAN :
            IF rename_ok /\ exists(arr[n])
            THEN /\ arr' = rename_to_marker(arr, hid, n).arr
                 /\ hid' = rename_to_marker(arr, hid, n).hid
                 /\ workers' = [workers EXCEPT ![w].pc = "move"]
                 /\ last' = Quiet
                 /\ UNCHANGED active
            ELSE /\ WorkerExit(w, "hide_failed")
                 /\ UNCHANGED <<arr, hid>>
        /\ wrote' = NoWrite
        /\ UNCHANGED <<part, cache, dbvars, processed, monvars, bootvars, dem>>

\* Lines 1050-1060: os.rename(tmp, cache); if it fails, the rollback: the
\* marker is renamed back if it exists and the partial file is deleted.  A
\* failing rollback rename leaves the rest undone (caught at line 1062).
WorkerMove(w) ==
    LET n == workers[w].path.name
    IN  /\ last = Quiet
        /\ workers[w].pc = "move"
        /\ \E rename_ok \in BOOLEAN, rollback_ok \in BOOLEAN :
            IF rename_ok /\ exists(part[n])
            THEN /\ cache' = [cache EXCEPT ![n] = part[n]]
                 /\ part' = [part EXCEPT ![n] = NoFile]
                 /\ workers' = [workers EXCEPT ![w].pc = "register"]
                 /\ last' = Quiet
                 /\ UNCHANGED <<arr, hid, active>>
            ELSE IF ~exists(hid[n])
            THEN /\ part' = [part EXCEPT ![n] = NoFile]
                 /\ WorkerExit(w, "rolled_back")
                 /\ UNCHANGED <<arr, hid, cache>>
            ELSE IF rollback_ok
            THEN /\ arr' = rename_back(arr, hid, n).arr
                 /\ hid' = rename_back(arr, hid, n).hid
                 /\ part' = [part EXCEPT ![n] = NoFile]
                 /\ WorkerExit(w, "rolled_back")
                 /\ UNCHANGED cache
            ELSE /\ WorkerExit(w, "rollback_failed")
                 /\ UNCHANGED fsvars
        /\ wrote' = NoWrite
        /\ UNCHANGED <<dbvars, processed, monvars, bootvars, dem>>

\* Lines 1066-1086: the subtitle files of the array directory are renamed
\* to markers and listed in the registry (a rename that fails is skipped),
\* then the registration (MoverIgnore.add, DB.add_managed_file).  An
\* exception of the database is caught at line 1088, where the partial
\* file is deleted if there is one.
WorkerRegister(w) ==
    LET path == workers[w].path
    IN  /\ last = Quiet
        /\ workers[w].pc = "register"
        /\ \E subs \in SUBSET ArraySubtitles(arr, path.name) :
            /\ arr' = [m \in Names |-> IF m \in subs THEN NoFile ELSE arr[m]]
            /\ hid' = [m \in Names |-> IF m \in subs THEN arr[m] ELSE hid[m]]
            /\ ignore' = [p \in Keys |->
                    IF p \in UserPaths /\ p.name \in subs
                    THEN MoverIgnore_add(ignore, p)[p]
                    ELSE MoverIgnore_add(ignore, path)[p]]
        /\ \E db_ok \in BOOLEAN :
            IF db_ok
            THEN /\ rows' = add_managed_file(rows, path, workers[w].size_bytes)
                 /\ wrote' = [update_stats(workers[w].size_bytes) EXCEPT
                                !.log = add_managed_file_log(path, "copy")]
                 /\ WorkerExit(w, "committed")
                 /\ UNCHANGED part
            ELSE /\ part' = [part EXCEPT ![path.name] = NoFile]
                 /\ WorkerExit(w, "register_failed")
                 /\ wrote' = NoWrite
                 /\ UNCHANGED rows
        /\ UNCHANGED <<cache, queue, resumed, processed, monvars, bootvars, dem>>

Worker == \E w \in WorkerIds :
    \/ WorkerBegin(w)
    \/ WorkerRsync(w)
    \/ WorkerHide(w)
    \/ WorkerMove(w)
    \/ WorkerRegister(w)

\* ------------------------------------------------------- schedule_cleanup
\* A schedule_cleanup without the marker test of lines 1105-1111.
schedule_cleanup_unmarked(path, DELETE_ON_STOP, CLEANUP_DELAY_HOURS) ==
    LET res == IF ~DELETE_ON_STOP THEN "off" ELSE "scheduled"
    IN  /\ queue' = IF res = "scheduled"
                    THEN db_schedule_cleanup(queue, path, CLEANUP_DELAY_HOURS)
                    ELSE queue
        /\ resumed' = IF res = "scheduled" THEN resumed \ {path} ELSE resumed
        /\ last' = Step("schedule_cleanup", path, res)
        /\ wrote' = NoWrite
        /\ UNCHANGED <<fsvars, rows, ignore, active, processed, monvars, bootvars, workers, dem>>

\* Lines 1100-1116
schedule_cleanup(path, DELETE_ON_STOP, CLEANUP_DELAY_HOURS) ==
    LET a == get_array(path)
        res == IF ~DELETE_ON_STOP THEN "off"
               ELSE IF a # None /\ ~exists(hid[a.name]) THEN "native"
               ELSE "scheduled"
    IN  /\ queue' = IF res = "scheduled"
                    THEN db_schedule_cleanup(queue, path, CLEANUP_DELAY_HOURS)
                    ELSE queue
        /\ resumed' = IF res = "scheduled" THEN resumed \ {path} ELSE resumed
        /\ last' = Step("schedule_cleanup", path, res)
        /\ wrote' = NoWrite
        /\ UNCHANGED <<fsvars, rows, ignore, active, processed, monvars, bootvars, workers, dem>>

ScheduleCleanupOn(S) ==
    /\ last = Quiet
    /\ \E path \in S, on \in BOOLEAN, delay \in {0, 24} :
        schedule_cleanup(path, on, delay)

\* Time passes: a pending entry becomes due.
Tick ==
    /\ last = Quiet
    /\ \E p \in Paths :
        /\ queue[p] = "pending"
        /\ queue' = [queue EXCEPT ![p] = "due"]
    /\ wrote' = NoWrite
    /\ UNCHANGED <<fsvars, rows, ignore, resumed, active, processed, monvars, bootvars, workers, dem, last>>

\* -------------------------------------------------------- force_cleanup
\* Lines 716-720: a path in the cache namespace is turned into a user path.
normalize(p) == IF p.root = "cache" THEN [root |-> "user", name |-> p.name] ELSE p

\* An ownership check that does not look for the marker.
OwnershipCheck_no_marker(user_path) ==
    IF get_array(user_path) # None THEN "verified" ELSE "no_array_path"

\* Lines 733-743: the ownership check.
OwnershipCheck(user_path) ==
    LET a == get_array(user_path)
    IN  IF a # None
        THEN (IF ~exists(hid[a.name]) THEN "native" ELSE "verified")
        ELSE "no_array_path"

\* Where a demoter goes when its force_cleanup call has returned.
AfterCleanup(d) ==
    IF d = "sweep" /\ dem[d].todo # {}
    THEN [pc |-> "next", path |-> None, todo |-> dem[d].todo]
    ELSE IdleDem

\* Lines 714-746: the call, up to the ownership check.
CleanupCall(d, p, todo) ==
    LET user_path == normalize(p)
        res == OwnershipCheck(user_path)
    IN  /\ IF res = "verified"
           THEN /\ dem' = [dem EXCEPT ![d] = [pc |-> "book", path |-> user_path, todo |-> todo]]
                /\ last' = Quiet
           ELSE /\ dem' = [dem EXCEPT ![d] =
                        IF todo # {} THEN [pc |-> "next", path |-> None, todo |-> todo]
                        ELSE IdleDem]
                /\ last' = Step("force_cleanup", user_path, res)
        /\ wrote' = NoWrite
        /\ UNCHANGED <<fsvars, dbvars, active, processed, monvars, bootvars, workers>>

\* A bookkeeping whose failure ends the call.
AfterBook_strict(q_ok, m_ok, i_ok) == IF q_ok /\ m_ok /\ i_ok THEN "restore" ELSE "idle"

\* Lines 752-753, 759-760 and 767-768: each except clause only logs, so the
\* call goes on to the restore whatever failed.
AfterBook(q_ok, m_ok, i_ok) == "restore"

\* Lines 748-769: the queue row, the managed_files row and the registry line
\* are removed; a failure of one of them is logged and the rest goes on.
CleanupBook(d) ==
    LET path == dem[d].path
    IN  /\ last = Quiet
        /\ dem[d].pc = "book"
        /\ \E q_ok \in BOOLEAN, m_ok \in BOOLEAN, i_ok \in BOOLEAN :
            /\ queue' = IF q_ok THEN remove_from_queue(queue, path) ELSE queue
            /\ rows' = IF m_ok THEN remove_managed_file(rows, path) ELSE rows
            /\ wrote' = [NoWrite EXCEPT !.log = IF m_ok THEN remove_managed_file_log(rows, path)
                                                ELSE {}]
            /\ ignore' = IF i_ok THEN MoverIgnore_remove(ignore, path) ELSE ignore
            /\ dem' = [dem EXCEPT ![d].pc = AfterBook(q_ok, m_ok, i_ok)]
        /\ UNCHANGED resumed
        /\ UNCHANGED <<fsvars, active, processed, monvars, bootvars, workers, last>>

\* Lines 786-787: the marker names of the array directory that the sidecar
\* loop renames back, in the directory listing d.
SidecarMarkers(h, n) ==
    {m \in Names : /\ exists(h[m])
                   /\ startswith(hidden_name(m), stem(n))
                   /\ endswith(hidden_name(m), <<HIDDEN_SUFFIX>>)}

\* Lines 771-800: the marker is renamed back if it exists, then every marker
\* name of the directory that starts with the stem is renamed back (the
\* marker itself is one of them, so a failed rename is tried a second time),
\* and the registry line of every file renamed there is removed (line 794).
\* A failure of a rename is logged and the rest goes on.
CleanupRestore(d) ==
    LET n == dem[d].path.name
    IN  /\ last = Quiet
        /\ dem[d].pc = "restore"
        /\ \E rename_ok \in BOOLEAN :
            LET first == rename_ok /\ exists(hid[n])
                arr1 == IF first THEN rename_back(arr, hid, n).arr ELSE arr
                hid1 == IF first THEN rename_back(arr, hid, n).hid ELSE hid
            IN  \E renamed \in SUBSET SidecarMarkers(hid1, n) :
                    /\ arr' = [m \in Names |-> IF m \in renamed THEN hid1[m] ELSE arr1[m]]
                    /\ hid' = [m \in Names |-> IF m \in renamed THEN NoFile ELSE hid1[m]]
                    /\ ignore' = [p \in Keys |->
                            IF p \in UserPaths /\ p.name \in renamed THEN 0 ELSE ignore[p]]
        /\ dem' = [dem EXCEPT ![d].pc = "delete"]
        /\ wrote' = NoWrite
        /\ UNCHANGED <<part, cache, rows, queue, resumed, active, processed,
                       monvars, bootvars, workers, last>>

\* Line 816: the subtitle files of the cache directory whose name starts
\* with the stem.
CachedSubtitles(c, n) ==
    {m \in Names : /\ exists(c[m])
                   /\ startswith(m, stem(n))
                   /\ suffix(m) \in ALLOWED_SUB_EXTS}

\* Lines 802-833: if the cache copy exists, it is deleted, and so are the
\* cached subtitle files, whose registry lines are removed; a delete that
\* fails is logged and the rest goes on.  The call returns success.
CleanupDelete(d) ==
    LET n == dem[d].path.name
        subs == IF exists(cache[n]) THEN CachedSubtitles(cache, n) ELSE {}
    IN  /\ last = Quiet
        /\ dem[d].pc = "delete"
        /\ \E remove_ok \in BOOLEAN, gone \in SUBSET subs :
            /\ cache' = [m \in Names |->
                            IF (m = n /\ remove_ok) \/ m \in gone THEN NoFile ELSE cache[m]]
            /\ ignore' = [p \in Keys |->
                            IF p \in UserPaths /\ p.name \in gone THEN 0 ELSE ignore[p]]
        /\ dem' = [dem EXCEPT ![d] = AfterCleanup(d)]
        /\ last' = Step("force_cleanup", dem[d].path, "success")
        /\ wrote' = NoWrite
        /\ UNCHANGED <<arr, hid, part, rows, queue, resumed, active, processed,
                       monvars, bootvars, workers>>

\* The paths the API hands to force_cleanup for the user paths S: the user
\* paths themselves and their cache-tier paths.
ApiPaths(S) == S \cup {[root |-> "cache", name |-> p.name] : p \in S \cap UserPaths}

\* Handler.do_POST, /api/cleanup and /api/force_cleanup
ApiCleanupOn(S) ==
    /\ last = Quiet
    /\ dem["api"].pc = "idle"
    /\ \E p \in ApiPaths(S) : CleanupCall("api", p, {})

\* -------------------------------------------------------- process_queue
\* Line 1120: the sweep reads the due entries.
SweepStart ==
    /\ last = Quiet
    /\ dem["sweep"].pc = "idle"
    /\ LET due == get_pending_cleanups(queue)
       IN  IF due = {}
           THEN /\ last' = Step("process_queue", None, "empty")
                /\ UNCHANGED dem
           ELSE /\ dem' = [dem EXCEPT !["sweep"] = [pc |-> "next", path |-> None, todo |-> due]]
                /\ last' = Quiet
    /\ wrote' = NoWrite
    /\ UNCHANGED <<fsvars, dbvars, active, processed, monvars, bootvars, workers>>

\* Lines 1121-1123: force_cleanup is called for the next entry read.
SweepNext ==
    /\ last = Quiet
    /\ dem["sweep"].pc = "next"
    /\ \E p \in dem["sweep"].todo : CleanupCall("sweep", p, dem["sweep"].todo \ {p})

Cleanup == \E d \in Demoters :
    \/ CleanupBook(d)
    \/ CleanupRestore(d)
    \/ CleanupDelete(d)

\* ------------------------------------------------------- _recover_state
\* A scan that registers every marker that has a cache copy.
Recoverable_any_copy(p) ==
    /\ p \in UserPaths
    /\ exists(hid[p.name])
    /\ exists(cache[p.name])

\* Lines 659-681: the markers whose pair is registered.
Recoverable(p) ==
    /\ p \in UserPaths
    /\ exists(hid[p.name])
    /\ suffix(p.name) \notin ALLOWED_SUB_EXTS
    /\ exists(cache[p.name])
    /\ cache[p.name] # 0

\* A scan that logs each pair it registers as a copy.
RecoverLogAction_copy == "copy"

\* Line 684: log_action=None
RecoverLogAction == NoAction

\* Lines 683-686: what the scan writes to activity_log and to stats.
recover_wrote ==
    [NoWrite EXCEPT !.log = UNION {add_managed_file_log(p, RecoverLogAction) :
                                        p \in {k \in Keys : Recoverable(k)}}]

\* Lines 684-685
recover_rows(r) == [p \in Keys |-> IF Recoverable(p) THEN cache[p.name] ELSE r[p]]

recover_ignore(ig) ==
    [p \in Keys |-> IF Recoverable(p) THEN MoverIgnore_add(ig, p)[p] ELSE ig[p]]

\* Handler.do_POST, /api/rebuild and /api/rebuild_state
Rebuild ==
    /\ last = Quiet
    /\ rows' = recover_rows(clear_all_rows)
    /\ queue' = clear_all_queue
    /\ ignore' = recover_ignore(ignore)
    /\ last' = Step("rebuild", None, "")
    /\ wrote' = recover_wrote
    /\ UNCHANGED <<fsvars, resumed, active, processed, monvars, bootvars, workers, dem>>

\* ------------------------------------------------------- crash, restart
\* The names whose partial file a worker was writing.
Copying == {workers[w].path.name : w \in {v \in WorkerIds : workers[v].pc = "rsync"}}

\* The process dies between two steps and is started again: the threads and
\* the in-memory sets are gone, a partial file being written is incomplete,
\* and CacheManager.__init__ runs _cleanup_partials (which removes the
\* partial files older than an hour) and _recover_state.
CrashRestart ==
    /\ last = Quiet
    /\ workers' = [w \in WorkerIds |-> IdleWorker]
    /\ dem' = [d \in Demoters |-> IdleDem]
    /\ active' = {}
    /\ processed' = {}
    /\ mon' = IdleMon
    /\ mactive' = {}
    /\ carried' = {}
    /\ wrote' = recover_wrote
    /\ reb' = IdleReb
    /\ UNCHANGED <<boot, cfg>>
    /\ part' \in [Names -> {NoFile, Junk} \cup FileSizes]
    /\ \A n \in Names :
        \/ part'[n] = NoFile
        \/ part'[n] = part[n]
        \/ n \in Copying /\ part'[n] = Junk
    /\ rows' = recover_rows(rows)
    /\ ignore' = recover_ignore(ignore)
    /\ last' = Step("restart", None, "")
    /\ UNCHANGED <<arr, hid, cache, queue, resumed>>

\* The caller has taken the result of the call.
Return ==
    /\ last # Quiet
    /\ last' = Quiet
    /\ wrote' = NoWrite
    /\ UNCHANGED <<fsvars, dbvars, active, processed, monvars, bootvars, workers, dem>>

\* The engine with one media file: the calls are about P1, and the cleanup
\* API is also called with a path outside the user-view root.
CopyFile == CopyFileOn({P1})

ScheduleCleanup == ScheduleCleanupOn({P1})

ApiCleanup == ApiCleanupOn({P1, PX})

Next ==
    \/ CopyFile
    \/ Worker
    \/ ScheduleCleanup
    \/ Tick
    \/ ApiCleanup
    \/ SweepStart
    \/ SweepNext
    \/ Cleanup
    \/ Rebuild
    \/ CrashRestart
    \/ Return

Spec == Init /\ [][Next]_vars

\* ------------------------------------------------ the queue and the sweep
\* The engine after its promotions: every media file is promoted (marker on
\* the array, copy in the cache, managed_files row, registry line) or native
\* to the cache; no worker runs. The webhook is called with every path, the
\* one outside the user-view root included, and the maintenance loop sweeps.
InitQueue ==
    /\ \E kind \in [MediaNames -> {"promoted", "native"}], s \in 1..MaxSize :
        LET promoted(n) == n \in MediaNames /\ kind[n] = "promoted"
        IN  /\ arr = [n \in Names |-> NoFile]
            /\ hid = [n \in Names |-> IF promoted(n) THEN s ELSE NoFile]
            /\ cache = [n \in Names |-> IF n \in MediaNames THEN s ELSE NoFile]
            /\ rows = [p \in Keys |->
                        IF p \in UserPaths /\ promoted(p.name) THEN s ELSE NoRow]
            /\ ignore = [p \in Keys |->
                        IF p \in UserPaths /\ promoted(p.name) THEN 1 ELSE 0]
    /\ part = [n \in Names |-> NoFile]
    /\ queue = [p \in Keys |-> "none"]
    /\ active = {}
    /\ processed = {}
    /\ workers = [w \in WorkerIds |-> IdleWorker]
    /\ dem = [d \in Demoters |-> IdleDem]
    /\ resumed = {}
    /\ mon = IdleMon
    /\ mactive = {}
    /\ carried = {}
    /\ boot = "running"
    /\ cfg = MountedRoots
    /\ wrote = NoWrite
    /\ reb = IdleReb
    /\ last = Step("start", None, "")

\* Handler.do_POST, playback.stop, with any path Emby reports.
ScheduleCleanupAny == ScheduleCleanupOn(Paths)

\* The cleanup queue in one life of the process.
NextQueue ==
    \/ ScheduleCleanupAny
    \/ Tick
    \/ SweepStart
    \/ SweepNext
    \/ Cleanup
    \/ Rebuild
    \/ Return

SpecQueue == InitQueue /\ [][NextQueue]_vars

\* ------------------------------------------------------------- Monitor
\* Lines 61-62 of DEFAULTS, in units of 30 s.
MonConfig == [COOLDOWN_MOVIE_SEC |-> 2, COOLDOWN_EPISODE_SEC |-> 1]

\* Line 1177: for _ in range(5)
FindTries == 5

\* What a GET /Sessions can tell about the item: the request failed or the
\* list is empty ("none"), the list holds no session playing the item
\* ("absent"), or it holds one, paused or not, at a position.
Responses ==
    {[kind |-> k, paused |-> FALSE, pos |-> 0] : k \in {"none", "absent"}}
    \cup {[kind |-> "session", paused |-> b, pos |-> t] : b \in BOOLEAN, t \in 0..MaxPos}

\* The path of the item in the session, after PathTools.map_path.
ItemPath(item_id) == P1

\* CacheManager.is_cached
is_cached(path) == get_cache(path) # None /\ exists(cache[path.name])

\* A cooldown that is the one of episodes for every type.
Cooldown_episode(item_type) == MonConfig.COOLDOWN_EPISODE_SEC

\* Line 1211
Cooldown(item_type) ==
    IF item_type = "Movie" THEN MonConfig.COOLDOWN_MOVIE_SEC
    ELSE MonConfig.COOLDOWN_EPISODE_SEC

\* The Items of a /Shows/NextUp answer that have a Path, after
\* PathTools.map_path: at most Limit different ones.  No answer is the
\* empty list.
NextUp(path, count) ==
    {items \in UNION {[1..k -> Paths] : k \in 0..count} :
        \A i, j \in DOMAIN items : items[i] = items[j] => i = j}

\* A pre-fetch that asks for the next episodes of movies too.
Prefetches_any(item_type, count) == count > 0

\* Line 1248
Prefetches(item_type, count) == item_type = "Episode" /\ count > 0

\* Monitor.start, from the playback.start webhook
MonitorStart ==
    /\ last = Quiet
    /\ \E item_id \in ItemIds, item_type \in {"Movie", "Episode"} :
        IF item_id \in mactive
        THEN /\ last' = Step("monitor_start", None, "running")
             /\ UNCHANGED <<mon, mactive>>
        ELSE /\ mon.pc = "idle"
             /\ mactive' = mactive \cup {item_id}
             /\ mon' = [IdleMon EXCEPT !.pc = "find", !.item = item_id, !.type = item_type]
             /\ UNCHANGED last
    /\ wrote' = NoWrite
    /\ UNCHANGED <<fsvars, dbvars, active, processed, workers, dem, carried, bootvars>>

\* Lines 1177-1208: one round of the search for the session; when it is
\* found and the file has a cache copy, copy_file is called at once.
MonitorFind ==
    /\ last = Quiet
    /\ mon.pc = "find"
    /\ \E r \in Responses :
        IF r.kind # "session"
        THEN /\ IF mon.tries + 1 < FindTries
                THEN /\ mon' = [mon EXCEPT !.tries = @ + 1]
                     /\ UNCHANGED <<mactive, last>>
                ELSE /\ mon' = IdleMon
                     /\ mactive' = mactive \ {mon.item}
                     /\ last' = Step("monitor", None, "not_found")
             /\ wrote' = NoWrite
             /\ UNCHANGED <<fsvars, dbvars, active, processed, workers, dem, carried, bootvars>>
        ELSE LET path == ItemPath(mon.item)
             IN  IF is_cached(path)
                 THEN /\ \E e \in EnvCases : copy_file(path, mon.item, e)
                      /\ mon' = [mon EXCEPT !.pc = "exit", !.path = path,
                                            !.calls = @ + 1, !.seen = r]
                      /\ carried' = carried \cup {mon.item}
                      /\ wrote' = NoWrite
                      /\ UNCHANGED <<mactive, bootvars>>
                 ELSE /\ mon' = [mon EXCEPT !.pc = "poll", !.path = path]
                      /\ wrote' = NoWrite
                      /\ UNCHANGED <<fsvars, dbvars, active, processed, workers, dem,
                                     mactive, carried, bootvars, last>>

\* Lines 1215-1253: one round of the cooldown loop.
MonitorPoll ==
    /\ last = Quiet
    /\ mon.pc = "poll"
    /\ \E r \in Responses :
        LET wait == IF r.kind = "none" THEN "none"
                    ELSE IF r.kind = "absent" THEN "absent"
                    ELSE IF r.paused THEN "paused"
                    ELSE IF r.pos >= Cooldown(mon.type) THEN "reached"
                    ELSE "early"
        IN  IF wait = "reached"
            THEN /\ \E e \in EnvCases : copy_file(mon.path, mon.item, e)
                 /\ \E count \in 0..MaxPrecache :
                    \E items \in (IF Prefetches(mon.type, count)
                                  THEN NextUp(mon.path, count) ELSE {<<>>}) :
                        mon' = [mon EXCEPT !.pc = IF items = <<>> THEN "exit" ELSE "precache",
                                           !.count = count, !.items = items,
                                           !.calls = @ + 1, !.seen = r]
                 /\ carried' = carried \cup {mon.item}
                 /\ wrote' = NoWrite
                 /\ UNCHANGED <<mactive, bootvars>>
            ELSE /\ mon' = IF wait = "absent" THEN [mon EXCEPT !.pc = "exit"] ELSE mon
                 /\ last' = Step("poll", mon.path, wait)
                 /\ wrote' = NoWrite
                 /\ UNCHANGED <<fsvars, dbvars, active, processed, workers, dem,
                                mactive, carried, bootvars>>

\* Lines 1266-1270: copy_file is called for the next item of the answer.
MonitorPrecache ==
    /\ last = Quiet
    /\ mon.pc = "precache"
    /\ \E e \in EnvCases : copy_file(Head(mon.items), NoItem, e)
    /\ mon' = [mon EXCEPT !.items = Tail(@), !.pre = @ + 1,
                          !.pc = IF Len(mon.items) = 1 THEN "exit" ELSE "precache"]
    /\ wrote' = NoWrite
    /\ UNCHANGED <<mactive, carried, bootvars>>

\* Lines 1206-1207 and 1255-1256: the thread releases its item id and ends.
MonitorExit ==
    /\ last = Quiet
    /\ mon.pc = "exit"
    /\ mactive' = mactive \ {mon.item}
    /\ mon' = IdleMon
    /\ wrote' = NoWrite
    /\ UNCHANGED <<fsvars, dbvars, active, processed, workers, dem, carried, bootvars, last>>

\* The engine fed by the playback monitor in one life of the process: every
\* copy_file call is one of a monitor run.
NextMonitor ==
    \/ MonitorStart
    \/ MonitorFind
    \/ MonitorPoll
    \/ MonitorPrecache
    \/ MonitorExit
    \/ Worker
    \/ Return

SpecMonitor == Init /\ [][NextMonitor]_vars

\* ------------------------------------------------------------- startup
\* Lines 84-95: the path starts with /mnt/ and with one of the mount
\* prefixes; nothing is asked of the file system.
validate_path(root) == root \in {"mount", "prefix_only"}

\* The settings a process can be started with.
ConfigCases ==
    {MountedRoots,
     [MountedRoots EXCEPT !.CACHE_PATH = "ram"],
     [MountedRoots EXCEPT !.CACHE_PATH = "prefix_only"],
     [MountedRoots EXCEPT !.ARRAY_ONLY_PATH = "ram"],
     [MountedRoots EXCEPT !.UNRAID_USER_PATH = "ram"]}

\* The process is not running; the directories the roots name hold what an
\* earlier run left: the file on the array, a promoted pair, or the file on
\* the array with the partial file of an interrupted copy.
InitStartup ==
    /\ \E kind \in {"array", "promoted", "unpaired", "interrupted"},
          s \in 1..MaxSize, copied \in FileSizes, sub \in BOOLEAN :
        LET marked == kind \in {"promoted", "unpaired"}
        IN  /\ sub => kind = "promoted"
            /\ kind # "promoted" => copied = s
            /\ arr = [n \in Names |-> IF n = N1 /\ ~marked THEN s ELSE NoFile]
            /\ hid = [n \in Names |-> IF n = N1 /\ marked THEN s
                                      ELSE IF n = N3 /\ sub THEN s ELSE NoFile]
            /\ cache = [n \in Names |-> IF n = N1 /\ kind = "promoted" THEN copied
                                        ELSE IF n = N3 /\ sub THEN s ELSE NoFile]
            /\ part = [n \in Names |->
                         IF n = N1 /\ kind = "interrupted" THEN Junk ELSE NoFile]
    /\ rows = [p \in Keys |-> NoRow]
    /\ queue = [p \in Keys |-> "none"]
    /\ ignore = [p \in Keys |-> 0]
    /\ active = {}
    /\ processed = {}
    /\ workers = [w \in WorkerIds |-> IdleWorker]
    /\ dem = [d \in Demoters |-> IdleDem]
    /\ resumed = {}
    /\ mon = IdleMon
    /\ mactive = {}
    /\ carried = {}
    /\ boot = "down"
    /\ cfg \in ConfigCases
    /\ wrote = NoWrite
    /\ reb = IdleReb
    /\ last = Step("start", None, "")

\* Line 1137, CM = CacheManager(), run when the module is loaded:
\* _cleanup_partials removes the partial files older than an hour and
\* _recover_state registers the pairs it finds.
Import ==
    /\ boot = "down"
    /\ boot' = "imported"
    /\ part' \in [Names -> {NoFile, Junk} \cup FileSizes]
    /\ \A n \in Names : part'[n] = NoFile \/ part'[n] = part[n]
    /\ rows' = recover_rows(rows)
    /\ ignore' = recover_ignore(ignore)
    /\ last' = Step("import", None, "")
    /\ wrote' = recover_wrote
    /\ UNCHANGED <<arr, hid, cache, queue, resumed, active, processed, workers, dem,
                   monvars, cfg, reb>>

\* Lines 1555-1563: main validates CACHE_PATH and exits if it is not valid;
\* otherwise the maintenance thread and the HTTP server are started.
MainValidate ==
    /\ boot = "imported"
    /\ IF validate_path(cfg.CACHE_PATH)
       THEN boot' = "running" /\ last' = Quiet
       ELSE boot' = "exited" /\ last' = Step("main", None, "exit")
    /\ wrote' = NoWrite
    /\ UNCHANGED <<fsvars, dbvars, active, processed, workers, dem, monvars, cfg, reb>>

\* copy_file in the running process: line 880 validates the cache path with
\* the same test.
StartedCopyFile ==
    /\ boot = "running"
    /\ last = Quiet
    /\ \E item_id \in ItemIds \cup {NoItem} :
       \E e \in {x \in EnvCases : x.valid_cache = validate_path(cfg.CACHE_PATH)} :
            copy_file(P1, item_id, e)
    /\ wrote' = NoWrite
    /\ UNCHANGED <<monvars, bootvars>>

StartedApiCleanup == boot = "running" /\ ApiCleanup

\* The process from its start: import, validation, then the engine.
NextStartup ==
    \/ Import
    \/ MainValidate
    \/ StartedCopyFile
    \/ Worker
    \/ StartedApiCleanup
    \/ Cleanup
    \/ Return

SpecStartup == InitStartup /\ [][NextStartup]_vars

\* ------------------------------------------------- the worker threads run
\* The engine with its threads scheduled: a worker thread that can take a
\* step takes one in the end (every wait of _worker is bounded: rsync has a
\* timeout of one hour at line 998, the back-off sleeps at line 1025), and
\* every call returns.
NextWorker ==
    \/ CopyFile
    \/ Worker
    \/ ApiCleanup
    \/ Cleanup
    \/ CrashRestart
    \/ Return

SpecWorker == Init /\ [][NextWorker]_vars /\ SF_vars(Worker) /\ WF_vars(Return)

\* ------------------------------------------------------ /api/rebuild
\* Lines 1460 and 1488: DB.clear_all().  The server is a
\* ThreadingHTTPServer (line 1574): the other requests and the threads of
\* the engine run between this call and the scan.
RebuildClear ==
    /\ last = Quiet
    /\ reb.pc = "idle"
    /\ rows' = clear_all_rows
    /\ queue' = clear_all_queue
    /\ reb' = [pc |-> "scan",
               was |-> {p \in UserPaths : /\ exists(hid[p.name])
                                          /\ exists(cache[p.name])
                                          /\ rows[p] # NoRow
                                          /\ queue[p] # "none"}]
    /\ wrote' = NoWrite
    /\ UNCHANGED <<fsvars, ignore, resumed, active, processed, monvars, boot, cfg,
                   workers, dem, last>>

\* Lines 1461 and 1489: CM._recover_state(), then the answer is sent.
RebuildScan ==
    /\ last = Quiet
    /\ reb.pc = "scan"
    /\ rows' = recover_rows(rows)
    /\ ignore' = recover_ignore(ignore)
    /\ reb' = [reb EXCEPT !.pc = "idle"]
    /\ wrote' = recover_wrote
    /\ last' = Step("rebuild", None, "")
    /\ UNCHANGED <<fsvars, queue, resumed, active, processed, monvars, boot, cfg,
                   workers, dem>>

\* The engine after its promotions, with files of every size, the empty one
\* included.
InitRebuild ==
    /\ \E kind \in [MediaNames -> {"promoted", "native"}], s \in FileSizes :
        LET promoted(n) == n \in MediaNames /\ kind[n] = "promoted"
        IN  /\ arr = [n \in Names |-> NoFile]
            /\ hid = [n \in Names |-> IF promoted(n) THEN s ELSE NoFile]
            /\ cache = [n \in Names |-> IF n \in MediaNames THEN s ELSE NoFile]
            /\ rows = [p \in Keys |->
                        IF p \in UserPaths /\ promoted(p.name) THEN s ELSE NoRow]
            /\ ignore = [p \in Keys |->
                        IF p \in UserPaths /\ promoted(p.name) THEN 1 ELSE 0]
    /\ part = [n \in Names |-> NoFile]
    /\ queue = [p \in Keys |-> "none"]
    /\ active = {}
    /\ processed = {}
    /\ workers = [w \in WorkerIds |-> IdleWorker]
    /\ dem = [d \in Demoters |-> IdleDem]
    /\ resumed = {}
    /\ mon = IdleMon
    /\ mactive = {}
    /\ carried = {}
    /\ boot = "running"
    /\ cfg = MountedRoots
    /\ wrote = NoWrite
    /\ reb = IdleReb
    /\ last = Step("start", None, "")

\* The rebuild command among the playback-stop events and the cleanup
\* requests.
NextRebuild ==
    \/ ScheduleCleanupAny
    \/ RebuildClear
    \/ RebuildScan
    \/ ApiCleanup
    \/ Cleanup
    \/ Return

SpecRebuild == InitRebuild /\ [][NextRebuild]_vars

\* ================================================================ claims
\* C1: a force_cleanup call goes past the ownership check only if the marker
\* exists at the call; a call that finds no marker returns the refusal and
\* leaves every cache file in place; and a cache file disappears only in the
\* delete step of a force_cleanup that passed the check for that file.
C1_DemoteRefusesUnmarked ==
    [][ /\ \A d \in Demoters :
            (dem[d].pc \in {"idle", "next"} /\ dem'[d].pc = "book")
                => exists(hid[dem'[d].path.name])
        /\ (last'.op = "force_cleanup" /\ last'.res = "native")
                => (~exists(hid[last'.path.name]) /\ cache' = cache)
        /\ \A n \in Names :
            (exists(cache[n]) /\ ~exists(cache'[n]))
                => \E d \in Demoters : dem[d].pc = "delete" /\ dem[d].path.name = n
      ]_vars

\* A force_cleanup of an unmarked (native) cache file was refused and the
\* file is there.
C1_Witness ==
    /\ last = Step("force_cleanup", P1, "native")
    /\ exists(cache[N1])
    /\ ~exists(hid[N1])

\* C2: no step of any worker, force_cleanup, sweep, recovery scan or crash
\* takes the last array-tier copy of a file away: a file that is on the array
\* tier under its name or under its marker name is there, with the same
\* content, after the step.
C2_ArrayCopyNeverLost ==
    [][ \A n \in Names :
            LET before == IF exists(arr[n]) THEN arr[n] ELSE hid[n]
                after == IF exists(arr'[n]) THEN arr'[n] ELSE hid'[n]
            IN  (exists(arr[n]) \/ exists(hid[n]))
                    => /\ exists(arr'[n]) \/ exists(hid'[n])
                       /\ after = before
      ]_vars

\* A crash between the two renames of the swap: after the restart the
\* original is under its marker name and there is no cache copy.
C2_Witness ==
    /\ last.op = "restart"
    /\ exists(hid[N1])
    /\ ~exists(arr[N1])
    /\ ~exists(cache[N1])

\* C3: when force_cleanup deletes the cache copy, the original is at its
\* array path (so if the rename back failed, the cache copy is not deleted).
C3_RestoredBeforeDelete ==
    [][ \A n \in Names :
            (exists(cache[n]) /\ ~exists(cache'[n])) => exists(arr[n])
      ]_vars

\* C4: when a worker has ended without committing, the original is at its
\* array path.
C4_OriginalReachableAfterFailure ==
    (last.op = "worker" /\ last.res # "committed") => exists(arr[last.path.name])

\* C5: when a worker ends in the swap after the rename of the partial file
\* failed, the original is at its array path, there is no marker, no partial
\* file and no cache copy, and the worker wrote no managed_files row.
C5_SwapFailureRestores ==
    [][ \A w \in WorkerIds :
            (workers[w].pc = "move" /\ last'.op = "worker" /\ workers'[w].pc = "idle")
                => LET n == workers[w].path.name
                   IN  /\ exists(arr'[n])
                       /\ ~exists(hid'[n])
                       /\ ~exists(part'[n])
                       /\ ~exists(cache'[n])
                       /\ rows' = rows
      ]_vars

\* C6: when a worker has committed (registered the managed_files row), the
\* marker exists, the original name is absent from the array tier, and the
\* cache file exists, is not empty and has the size recorded for the original.
C6_CommitState ==
    last = Step("worker", last.path, "committed")
        => LET n == last.path.name
           IN  /\ exists(hid[n])
               /\ ~exists(arr[n])
               /\ exists(cache[n])
               /\ cache[n] > 0
               /\ cache[n] = rows[last.path]

C8_OneWorkerPerPath ==
    [][ /\ \A v, w \in WorkerIds :
            (v # w /\ workers'[v].pc # "idle" /\ workers'[w].pc # "idle")
                => workers'[v].path # workers'[w].path
        /\ \A w \in WorkerIds : workers'[w].pc # "idle" => workers'[w].path \in active'
        /\ (last'.op = "copy_file" /\ last'.path \in active) => workers' = workers
      ]_vars

\* A copy_file call for a path whose worker is alive has returned without
\* starting a worker.
C8_Witness ==
    /\ last.op = "copy_file" /\ last.path = P1 /\ last.res = "in_flight"
    /\ \E w \in WorkerIds : workers[w].pc # "idle" /\ workers[w].path = P1
    /\ Cardinality({w \in WorkerIds : workers[w].pc # "idle"}) = 1

\* C9, for every call: when a copy_file call has returned, under any settings
\* and system status, the path has no cleanup-queue entry.
C9_ResumeDequeues ==
    last.op = "copy_file" => queue[last.path] = "none"

\* C9, for the calls that reach the queue: when a copy_file call has returned
\* and was not rejected by one of the
\* checks made before the queue is touched (disabled, exclusion, extension,
\* parity operation, unmapped path, invalid cache path, hard link), the path
\* has no cleanup-queue entry; this includes the call whose dedup key was
\* already seen.
C9_ResumeDequeuesPastChecks ==
    (/\ last.op = "copy_file"
     /\ last.res \notin {"disabled", "excluded", "extension", "parity",
                         "no_path", "invalid_path", "hardlink"})
        => queue[last.path] = "none"

\* A replay whose dedup key was already seen has removed the queue entry of
\* a cached file.
C9_Witness ==
    /\ last.op = "copy_file" /\ last.path = P1 /\ last.res = "duplicate"
    /\ P1 \in resumed
    /\ queue[P1] = "none"
    /\ exists(cache[N1]) /\ exists(hid[N1])

\* C10: once a replay has removed the queue entry of a path, no step of the
\* sweep's force_cleanup for that path restores the marker or deletes the
\* cache copy.
C10_SweepLeavesResumed ==
    [][ (dem'["sweep"] # dem["sweep"] /\ dem["sweep"].path \in resumed)
            => (hid' = hid /\ arr' = arr /\ cache' = cache)
      ]_vars

\* C11: when the process dies between a worker's rename of the original to
\* the marker name and its rename of the partial file, then after the restart
\* (partial cleanup and recovery scan) the marker of that file is gone or its
\* cache copy exists.
C11_NoDanglingMarkerAfterRestart ==
    [][ \A w \in WorkerIds :
            (workers[w].pc = "move" /\ last'.op = "restart")
                => LET n == workers[w].path.name
                   IN  exists(hid'[n]) => exists(cache'[n])
      ]_vars

\* C12: in every state, a recovery scan run on the outcome of a recovery scan
\* changes neither the managed_files rows nor the mover-ignore lines.
C12_RecoveryIdempotent ==
    /\ recover_rows(recover_rows(rows)) = recover_rows(rows)
    /\ recover_ignore(recover_ignore(ignore)) = recover_ignore(ignore)
    /\ recover_rows(recover_rows(clear_all_rows)) = recover_rows(clear_all_rows)

\* A restart has run the recovery scan over a marker with its cache copy and
\* registered the pair.
C12_Witness ==
    /\ last.op = "restart"
    /\ Recoverable(P1)
    /\ rows[P1] = cache[N1]
    /\ ignore[P1] = 1

\* C13: after a recovery scan, at startup or by the rebuild command, the
\* paths with a managed_files row are exactly the paths whose marker exists
\* and whose cache copy exists and is not empty.
C13_RecoveryReplaces ==
    last.op \in {"restart", "rebuild"}
        => \A p \in Paths : is_managed(rows, p) <=> Recoverable(p)

\* C14: a path with a managed_files row, for which no worker is alive and no
\* force_cleanup is in progress, has its marker and its cache copy.
C14_RowImpliesPair ==
    \A p \in UserPaths :
        (/\ is_managed(rows, p)
         /\ \A w \in WorkerIds : workers[w].pc = "idle" \/ workers[w].path # p
         /\ \A d \in Demoters : dem[d].pc \in {"idle", "next"} \/ dem[d].path # p)
            => (exists(hid[p.name]) /\ exists(cache[p.name]))

\* C15: a copy_file call rejected by an eligibility precondition (disabled,
\* exclusion, extension, parity operation, hard link, size ceiling, free
\* space) changes nothing: not the files, the managed_files rows, the cleanup
\* queue, the mover-ignore lines, the in-flight set or the seen dedup keys.
C15_RejectionHasNoEffect ==
    [][ (/\ last'.op = "copy_file"
         /\ last'.res \in {"disabled", "excluded", "extension", "parity",
                           "hardlink", "too_large", "no_space"})
            => UNCHANGED <<arr, hid, part, cache, rows, queue, ignore, active,
                           processed, workers>>
      ]_vars

\* C16: a copy_file call starts a worker only if the free space of the cache
\* tier is at least the reserve plus the size of the file; a call made with
\* less is not accepted and changes no file, and the free-space rejection is
\* given only then.
C16_FreeSpaceGuard ==
    [][ last'.op = "copy_file" =>
            LET n == last'.path.name
                s == IF exists(arr[n]) THEN arr[n] ELSE 0
            IN  /\ (workers' # workers \/ last'.res = "started")
                    => last'.free >= last'.reserve + s
                /\ last'.free < last'.reserve + s
                    => /\ last'.res # "started"
                       /\ workers' = workers /\ active' = active
                       /\ UNCHANGED <<arr, hid, part, cache>>
                /\ last'.res = "no_space" => last'.free < last'.reserve + s
      ]_vars

\* C17: a force_cleanup call that finds no marker, or that cannot compute the
\* array path, returns its error result and changes no file, no managed_files
\* row, no queue entry and no registry line; the first error is given only
\* for a user path without marker, the second only for a path with no array
\* path; and a call goes on to the removal steps only for a user path whose
\* marker exists.
C17_RefusalChangesNothing ==
    [][ /\ (last'.op = "force_cleanup" /\ last'.res \in {"native", "no_array_path"})
                => /\ UNCHANGED <<arr, hid, part, cache, rows, queue, ignore>>
                   /\ last'.res = "native"
                        => (last'.path \in UserPaths /\ ~exists(hid[last'.path.name]))
                   /\ last'.res = "no_array_path" => last'.path \notin UserPaths
        /\ \A d \in Demoters :
            (dem[d].pc \in {"idle", "next"} /\ dem'[d].pc = "book")
                => (dem'[d].path \in UserPaths /\ exists(hid[dem'[d].path.name]))
      ]_vars

\* A force_cleanup of a path outside the user-view root was refused while a
\* marker, a cache copy and a queue entry of the same file name exist.
C17_Witness ==
    /\ last = Step("force_cleanup", PX, "no_array_path")
    /\ exists(hid[N1])
    /\ exists(cache[N1])
    /\ queue[P1] # "none"

\* C18: when a force_cleanup call that found the marker has returned success,
\* the original is on the array under its name, the marker and the cache copy
\* are gone, and the path has no managed_files row, no queue entry and no
\* registry line.
C18_DemoteSuccessState ==
    \A p \in UserPaths :
        last = Step("force_cleanup", p, "success")
            => /\ exists(arr[p.name])
               /\ ~exists(hid[p.name])
               /\ ~exists(cache[p.name])
               /\ ~is_managed(rows, p)
               /\ queue[p] = "none"
               /\ ignore[p] = 0

\* C19: a schedule_cleanup call creates or changes a queue entry only for a
\* user path whose marker exists on the array at the call; a call for a path
\* without marker, or for a path outside the user-view root, leaves the queue
\* as it was.
C19_ScheduleOnlyMarked ==
    [][ last'.op = "schedule_cleanup" =>
            LET marked == /\ last'.path \in UserPaths
                          /\ exists(hid[last'.path.name])
            IN  /\ last'.res = "scheduled" => marked
                /\ ~marked => queue' = queue
                /\ \A p \in Paths : p # last'.path => queue'[p] = queue[p]
      ]_vars

\* C20: a sweep of process_queue takes exactly the entries that are due when
\* it reads the queue, none that is not yet due; each of its steps calls
\* force_cleanup for one entry it has not called yet, so every entry read is
\* called once; and the sweep ends only when every entry read has been
\* called, whether the calls before were refused or went through (a restart
\* of the process ends it too).
C20_SweepCallsEachDue ==
    [][ LET sw == dem["sweep"]
            sw2 == dem'["sweep"]
        IN  last'.op # "restart" =>
              /\ (sw.pc = "idle" /\ sw2.pc # "idle")
                    => /\ sw2.pc = "next"
                       /\ sw2.todo = {p \in Paths : queue[p] = "due"}
                       /\ sw2.todo # {}
              /\ (sw.pc = "idle" /\ last'.op = "process_queue")
                    => {p \in Paths : queue[p] = "due"} = {}
              /\ (sw.pc = "next" /\ sw2 # sw)
                    => \E p \in sw.todo :
                        /\ sw2.todo = sw.todo \ {p}
                        /\ \/ sw2.pc = "book" /\ sw2.path = p
                           \/ /\ last' = Step("force_cleanup", p, OwnershipCheck(p))
                              /\ sw2.pc = IF sw2.todo = {} THEN "idle" ELSE "next"
              /\ sw.pc \in {"book", "restore", "delete"} => sw2.todo = sw.todo
              /\ (sw.pc # "idle" /\ sw2.pc = "idle")
                    => IF sw.pc = "next" THEN Cardinality(sw.todo) = 1
                       ELSE sw.todo = {}
      ]_vars

\* A sweep that read three due entries has been refused for the path outside
\* the user-view root and has two entries left to call.
C20_Witness ==
    /\ last = Step("force_cleanup", PX, "no_array_path")
    /\ dem["sweep"].pc = "next"
    /\ dem["sweep"].todo = {P1, P2}
    /\ queue[PX] = "due"

\* C21 as stated: a copy_file call carrying an item id that an earlier call
\* of the same process carried starts no worker, changes no file and writes
\* no managed_files row.
C21_RepeatedKeyIgnored ==
    [][ (mon'.calls > mon.calls /\ mon.item \in carried)
            => /\ workers' = workers
               /\ UNCHANGED <<arr, hid, part, cache, rows>> ]_vars

\* C21: a copy_file call carrying an item id that an earlier call of the
\* same process recorded (a call that went past the eligibility checks of
\* lines 845-894) is rejected by one of these checks or returns as a
\* duplicate: it starts no worker, changes no file and writes no
\* managed_files row, and the in-flight set is as before.
C21_RecordedKeyIgnored ==
    [][ (mon'.calls > mon.calls /\ mon.item \in processed)
            => /\ last'.res \in {"duplicate", "disabled", "excluded", "extension",
                                 "parity", "no_path", "invalid_path", "hardlink"}
               /\ workers' = workers
               /\ active' = active
               /\ UNCHANGED <<arr, hid, part, cache, rows>> ]_vars

\* A second monitor run of the item has called copy_file while the file was
\* on the array and no worker was copying it, and the call was a duplicate.
C21_Witness ==
    /\ last.op = "copy_file"
    /\ last.res = "duplicate"
    /\ mon.calls = 1
    /\ exists(arr[N1])
    /\ ~exists(cache[N1])
    /\ active = {}

C23_MonitorEndsWithSession ==
    [][ /\ (last'.op = "poll" /\ last'.res \in {"none", "absent"})
            => (mon'.pc = "exit" /\ mon'.calls = mon.calls)
        /\ (mon.pc = "exit" /\ mon'.pc # "exit") => mon.item \notin mactive' ]_vars

\* C24: the registry holds the user path when a worker has committed its
\* promotion and, for every pair a recovery scan registers, after the scan;
\* it does not hold the path when a force_cleanup of it has returned success;
\* and it never holds a path on more than one line.
C24_RegistryFollowsOwnership ==
    /\ \A p \in Paths : ignore[p] <= 1
    /\ last.op = "worker" /\ last.res = "committed" => ignore[last.path] = 1
    /\ last.op \in {"restart", "rebuild"}
            => \A p \in Paths : Recoverable(p) => ignore[p] = 1
    /\ last.op = "force_cleanup" /\ last.res = "success" => ignore[last.path] = 0

\* C25: a step changes a file or a managed_files row only in a process whose
\* roots have been validated, and only when the three roots are real mount
\* points; and the process runs its engine only then.
C25_ValidatedBeforeActing ==
    [][ LET mounted == \A r \in DOMAIN cfg : cfg[r] = "mount"
        IN  /\ (fsvars' # fsvars \/ rows' # rows) => (boot = "running" /\ mounted)
            /\ boot' = "running" => mounted ]_vars

\* C26: with the state of a path read as Caching (a worker of the path is
\* alive), Idle (no marker, no cache copy), Cached (marker, cache copy and
\* row, no queue entry), QueuedForCleanup (the same with a queue entry), a
\* force_cleanup in progress counted as the way from QueuedForCleanup to
\* Idle, every step that changes the state of a path is one of Idle to
\* Caching, Caching to Cached, Caching to Idle, Cached to QueuedForCleanup,
\* QueuedForCleanup to Cached, QueuedForCleanup to Idle.
C26_PathTransitions ==
    [][ LET St(h, c, r, q, w, d, p) ==
                IF \E i \in WorkerIds : w[i].pc # "idle" /\ w[i].path = p
                THEN "Caching"
                ELSE IF \E x \in Demoters :
                            d[x].pc \in {"book", "restore", "delete"} /\ d[x].path = p
                THEN "Demoting"
                ELSE IF ~exists(h[p.name]) /\ ~exists(c[p.name]) THEN "Idle"
                ELSE IF exists(h[p.name]) /\ exists(c[p.name]) /\ r[p] # NoRow
                THEN (IF q[p] # "none" THEN "QueuedForCleanup" ELSE "Cached")
                ELSE "Other"
            Allowed == {<<"Idle", "Caching">>, <<"Caching", "Cached">>,
                        <<"Caching", "Idle">>, <<"Cached", "QueuedForCleanup">>,
                        <<"QueuedForCleanup", "Cached">>,
                        <<"QueuedForCleanup", "Idle">>,
                        <<"QueuedForCleanup", "Demoting">>, <<"Demoting", "Idle">>}
        IN  \A p \in UserPaths :
                LET before == St(hid, cache, rows, queue, workers, dem, p)
                    after == St(hid', cache', rows', queue', workers', dem', p)
                IN  before # after => <<before, after>> \in Allowed ]_vars

\* C27: the recovery scan run at start-up inserts a ManagedFile row only
\* for a path under the user view whose marker exists, whose cache copy
\* exists and is not empty and whose name is not a subtitle name; the row
\* holds the size of the cache copy.  A marker whose cache copy is missing
\* or empty gets no row.
C27_RecoveryRegistersOnlyPairs ==
    [][last'.op = "import" =>
        \A p \in Keys :
            rows'[p] # rows[p] =>
                /\ p.root = "user"
                /\ hid[p.name] # NoFile
                /\ cache[p.name] # NoFile
                /\ cache[p.name] # 0
                /\ p.name[Len(p.name)] \notin ALLOWED_SUB_EXTS
                /\ rows'[p] = cache[p.name]]_vars

\* The scan has run over a marked media file with a copy and a marked
\* subtitle file with a copy: the first has a row, the second has none.
C27_Witness ==
    /\ last.op = "import"
    /\ hid[N3] # NoFile /\ cache[N3] # NoFile
    /\ rows[P3] = NoRow
    /\ rows[P1] # NoRow

\* C28: in a monitor run, copy_file is called for the playing item (with
\* its item id) only as the first such call of the run, and only either in
\* the search round that found the session while the file had a cache copy,
\* or in a poll that found the session not paused at a position not below
\* the cooldown of the item type (60 s for a movie, 30 s for an episode, in
\* units of 30 s); a run that ends without finding the session has made no
\* call.
C28_PromoteOncePerRun ==
    [][ /\ (last'.op = "copy_file" /\ mon.pc # "precache") =>
            /\ mon.calls = 0
            /\ mon'.calls = 1
            /\ mon'.seen.kind = "session"
            /\ \/ mon.pc = "find" /\ cache[N1] # NoFile
               \/ /\ mon.pc = "poll"
                  /\ ~mon'.seen.paused
                  /\ mon'.seen.pos >= (IF mon.type = "Movie" THEN 2 ELSE 1)
        /\ mon'.calls > mon.calls => last'.op = "copy_file" /\ mon.pc # "precache"
        /\ last'.res = "not_found" => mon.calls = 0 /\ mon'.calls = 0 ]_vars

\* A poll has found the movie playing at 60 s and copy_file has started a
\* worker; the file had no cache copy.
C28_Witness ==
    /\ last.op = "copy_file"
    /\ last.res = "started"
    /\ mon.type = "Movie"
    /\ mon.calls = 1
    /\ mon.pre = 0
    /\ mon.seen = [kind |-> "session", paused |-> FALSE, pos |-> 2]

C30_BookkeepingFailureGoesOn ==
    [][ last'.op # "restart" =>
        \A d \in Demoters :
            LET n == dem[d].path.name
            IN  /\ (dem[d].pc = "book" /\ dem'[d] # dem[d]) =>
                    /\ dem'[d] = [dem[d] EXCEPT !.pc = "restore"]
                    /\ UNCHANGED <<arr, hid, part, cache>>
                /\ (dem[d].pc = "restore" /\ dem'[d] # dem[d]) =>
                    /\ dem'[d] = [dem[d] EXCEPT !.pc = "delete"]
                    /\ \/ hid'[n] = NoFile /\ hid[n] # NoFile /\ arr'[n] = hid[n]
                       \/ hid'[n] = hid[n] /\ arr'[n] = arr[n]
                    /\ UNCHANGED <<rows, queue>>
                /\ (dem[d].pc = "delete" /\ dem'[d] # dem[d]) =>
                    /\ last' = Step("force_cleanup", dem[d].path, "success")
                    /\ cache'[n] = NoFile \/ cache'[n] = cache[n]
                    /\ UNCHANGED <<arr, hid, rows, queue>> ]_vars

\* A force_cleanup call has returned success with the managed_files row, the
\* queue entry and the registry line of the path still there: the marker has
\* been renamed back and the cache copy is deleted.
C30_Witness ==
    /\ last = Step("force_cleanup", P1, "success")
    /\ rows[P1] # NoRow
    /\ queue[P1] # "none"
    /\ ignore[P1] > 0
    /\ hid[N1] = NoFile
    /\ arr[N1] # NoFile
    /\ cache[N1] = NoFile

\* C31: a run of the recovery scan (at the rebuild command, at the start of
\* the process) appends no activity_log record, adds nothing to total_moves
\* and to total_gb_moved and does not set last_move_date, however many
\* pairs it registers.
C31_RecoveryWritesNoLedger ==
    [][ last'.op \in {"rebuild", "restart", "import"} =>
            /\ wrote'.log = {}
            /\ wrote'.moves = 0
            /\ wrote'.bytes = 0
            /\ ~wrote'.dated ]_vars

\* A rebuild has registered two pairs again while a cleanup call that has
\* done its bookkeeping for one of them has not yet restored the marker.
C31_Witness ==
    /\ last.op = "rebuild"
    /\ rows[P1] # NoRow /\ rows[P2] # NoRow
    /\ hid[N1] # NoFile /\ hid[N2] # NoFile
    /\ dem["api"].pc = "restore" \/ dem["sweep"].pc = "restore"
    /\ wrote = NoWrite

\* C32: a step of a force_cleanup call for P1 (S1.mkv) changes nothing that
\* belongs to the other managed file P2 (S10.mkv) of the directory: neither
\* its original, its marker and its cache copy, nor its managed_files row,
\* its queue entry and its registry line.
C32_DemoteLeavesOtherPaths ==
    [][ (dem["sweep"].path = P1 /\ dem'["sweep"] # dem["sweep"]) =>
            /\ arr'[N2] = arr[N2]
            /\ hid'[N2] = hid[N2]
            /\ cache'[N2] = cache[N2]
            /\ rows'[P2] = rows[P2]
            /\ queue'[P2] = queue[P2]
            /\ ignore'[P2] = ignore[P2] ]_vars

\* C33: a path of the in-flight set is the path of a worker thread that is
\* running, and a path that is in flight is in the end no longer in flight:
\* the worker leaves on one of its exits and releases it.
C33_WorkerReleasesPath ==
    /\ [](\A p \in active : \E w \in WorkerIds :
                workers[w].pc # "idle" /\ workers[w].path = p)
    /\ (P1 \in active) ~> (P1 \notin active)

\* A worker has ended because its rollback failed, and no path is in flight.
C33_Witness ==
    /\ last = Step("worker", P1, "rollback_failed")
    /\ active = {}

\* C34: when a worker thread ends without having committed, the cache
\* directory holds no partial file of its path.
C34_NoPartialAfterFailedWorker ==
    [][ (last'.op = "worker" /\ last'.res # "committed") =>
            part'[last'.path.name] = NoFile ]_vars

\* C35: an entry leaves the cleanup queue only in a copy_file call for its
\* path that got past the eligibility checks, in the bookkeeping of a
\* force_cleanup call for its path (which comes after the ownership check),
\* or in a rebuild; a force_cleanup call that is refused leaves the queue as
\* it is; and a sweep reads every due entry, so it finds no work only when
\* no entry is due.
C35_QueueEntryLifetime ==
    [][ /\ \A p \in Keys :
            (queue[p] # "none" /\ queue'[p] = "none") =>
                \/ /\ last'.op = "copy_file"
                   /\ last'.path = p
                   /\ last'.res \notin {"disabled", "excluded", "extension", "parity",
                                         "no_path", "invalid_path", "hardlink"}
                \/ \E d \in Demoters :
                        dem[d].pc = "book" /\ dem[d].path = p /\ dem'[d].pc = "restore"
                \/ last'.op = "rebuild"
        /\ (last'.op = "force_cleanup" /\ last'.res \in {"native", "no_array_path"})
                => queue' = queue
        /\ (dem["sweep"].pc = "idle" /\ dem'["sweep"].pc = "next")
                => dem'["sweep"].todo = {p \in Keys : queue[p] = "due"}
        /\ (last'.op = "process_queue" /\ last'.res = "empty")
                => \A p \in Keys : queue[p] # "due" ]_vars

\* The sweep has called force_cleanup for a due entry whose marker is no
\* longer there; the call was refused and the entry is still due.
C35_Witness ==
    /\ last = Step("force_cleanup", P1, "native")
    /\ queue[P1] = "due"
    /\ dem["sweep"].pc = "idle"
    /\ dem["api"].pc = "idle"

\* C36: whenever a managed_files row is written, its size_bytes is the size
\* of the file at its cache path.
C36_RowSizeIsCacheSize ==
    [][ \A p \in UserPaths :
            (rows'[p] # rows[p] /\ rows'[p] # NoRow) => rows'[p] = cache'[p.name] ]_vars

\* ---------------------------------------------------------------- C37
\* C37 as stated: when the rebuild command completes the cleanup queue is
\* empty, and every file that was queued for cleanup when the command started
\* and is still marked has its row and no queue entry.
C37_RebuildLeavesCached ==
    [][last'.op = "rebuild" =>
        /\ \A p \in Keys : queue'[p] = "none"
        /\ \A p \in reb.was :
            exists(hid'[p.name]) => rows'[p] # NoRow /\ queue'[p] = "none"]_vars

\* C37, amended: the clearing step of the rebuild command empties the row
\* table and the cleanup queue; until the command completes an entry enters
\* the queue only by a playback-stop event for its path, and the scan adds
\* none; when the command completes, every file that was queued for cleanup
\* at its start, is still marked and has a cache copy that is not empty has a
\* row with the size of the copy.
C37_RebuildClearsThenScans ==
    [][/\ (reb.pc = "idle" /\ reb'.pc = "scan") =>
            /\ \A p \in Keys : queue'[p] = "none" /\ rows'[p] = NoRow
       /\ reb.pc = "scan" =>
            \A p \in Keys : (queue[p] = "none" /\ queue'[p] # "none") =>
                /\ last' = Step("schedule_cleanup", p, "scheduled")
                /\ reb' = reb
       /\ last'.op = "rebuild" =>
            /\ queue' = queue
            /\ \A p \in reb.was :
                (exists(hid'[p.name]) /\ exists(cache'[p.name]) /\ cache'[p.name] > 0)
                    => rows'[p] = cache'[p.name]]_vars

\* A rebuild has completed for a file that was queued for cleanup: the file is
\* still marked, has its row again and no queue entry.
C37_Witness ==
    /\ last = Step("rebuild", None, "")
    /\ P1 \in reb.was
    /\ exists(hid[N1]) /\ cache[N1] > 0
    /\ rows[P1] = cache[N1]
    /\ queue[P1] = "none"

\* ---------------------------------------------------------------- C38
\* C38: while a promotion worker is in flight for a path and its marker is
\* not yet placed, the path has no queue entry and a schedule_cleanup call
\* for it leaves the queue as it is; the step in which a worker commits leaves
\* the queue as it is too.
C38_NoEntryWhileCaching ==
    [][/\ \A w \in WorkerIds :
            LET p == workers[w].path
            IN  (workers[w].pc \in {"begin", "rsync", "hide"} /\ ~exists(hid[p.name])) =>
                    /\ queue[p] = "none"
                    /\ (last'.op = "schedule_cleanup" /\ last'.path = p) =>
                            /\ last'.res \in {"native", "off"}
                            /\ queue' = queue
       /\ (last'.op = "worker" /\ last'.res = "committed") => queue' = queue]_vars

\* A playback-stop event for P1 was turned down as native while the worker
\* of P1 has copied the file and not yet placed the marker.
C38_Witness ==
    /\ last = Step("schedule_cleanup", P1, "native")
    /\ \E w \in WorkerIds : workers[w].path = P1 /\ workers[w].pc = "hide"
    /\ exists(part[N1]) /\ ~exists(hid[N1])
    /\ queue[P1] = "none"

\* ---------------------------------------------------------------- C39
\* C39: a force_cleanup call on a path whose marker exists and whose cache
\* copy is absent renames the marker back to the name of the original in its
\* restore step, deletes no file in its last step and returns success.
C39_DemoteRestoresOrphanMarker ==
    [][\A d \in Demoters :
        /\ (/\ dem[d].pc = "restore"
            /\ exists(hid[dem[d].path.name])
            /\ ~exists(cache[dem[d].path.name])
            /\ dem'[d].pc = "delete") =>
                /\ arr'[dem[d].path.name] = hid[dem[d].path.name]
                /\ ~exists(hid'[dem[d].path.name])
                /\ cache' = cache /\ part' = part
        /\ (/\ dem[d].pc = "delete"
            /\ ~exists(cache[dem[d].path.name])
            /\ dem'[d].pc # "delete") =>
                /\ cache' = cache /\ arr' = arr /\ hid' = hid /\ part' = part
                /\ last' = Step("force_cleanup", dem[d].path, "success")]_vars

====
